---- MODULE Spec2Model ----
(***************************************************************************)
(* The vector-calculus operators of findiff/vector.py: VectorOperator and  *)
(* its subclasses Gradient, Divergence and Curl, and Laplacian.            *)
(*                                                                         *)
(* An operator object is constructed from keyword arguments and is then    *)
(* applied to field arrays.  The contents of an array are symbolic: a      *)
(* value is an ordered sum of signed terms, each term naming the sequence  *)
(* of axis differentiators applied to a part of the caller's field.  The   *)
(* order of the terms is the order in which the code accumulates them.     *)
(***************************************************************************)
EXTENDS Integers, Sequences, FiniteSets, TLC

VARIABLES
    given,   \* <<>> or <<[cls, kwargs]>>: what the last construction was given
    op,      \* <<>> or <<self>>: the object the last construction produced
    made,    \* the FinDiff constructions of the last construction, in order
    exc,     \* "none", or the exception the last operation raised
    arg,     \* <<>> or <<f>>: the field passed to the last application
    heap,    \* the arrays alive in the last application: "fld", "acc"
    accref,  \* <<>> or <<ref>>: the array the last application updated in place
    ret,     \* <<>> or <<array>>: what the last application returned
    calls,   \* the differentiator applications of the last application, in order
    last     \* "none", "new" or "call"

vars == <<given, op, made, exc, arg, heap, accref, ret, calls, last>>

-----------------------------------------------------------------------------
(* Bounds of the model *)

MaxDims == 3        \* longest h, longest coords, largest coordinate row count
MaxRank == 4        \* highest rank of a field passed to an operator
MaxLead == 3        \* longest leading axis of a field passed to an operator

Spacings  == {1, 2}     \* grid spacings h[k]
Accs      == {4}        \* explicit accuracy orders

-----------------------------------------------------------------------------
(* Small helpers *)

RECURSIVE SeqsOfLen(_, _)
SeqsOfLen(S, n) ==
    IF n = 0 THEN {<<>>}
    ELSE {<<x>> \o s : x \in S, s \in SeqsOfLen(S, n - 1)}

SeqsUpTo(S, n) == UNION {SeqsOfLen(S, i) : i \in 0..n}

Opt(S) == {<<>>} \cup {<<x>> : x \in S}

-----------------------------------------------------------------------------
(* Inputs of the constructors *)

\* the spacings a, b, a, b, ... of n axes
HSeq(a, b, n) == [k \in 1..n |-> IF k % 2 = 1 THEN a ELSE b]

\* h: a list of grid spacings, or a single scalar spacing
HValues ==
    {[isseq |-> TRUE, seq |-> HSeq(a, b, n), scalar |-> 0] :
        a \in Spacings, b \in Spacings, n \in 0..MaxDims}
    \cup {[isseq |-> FALSE, seq |-> <<>>, scalar |-> x] : x \in Spacings}

\* coords: a numpy array of some shape, or a list of some length (shape = <<len>>)
CoordsValues ==
    {[isnd |-> TRUE, shape |-> s] : s \in SeqsUpTo(1..MaxDims, 2)}
    \cup {[isnd |-> FALSE, shape |-> <<n>>] : n \in 0..(MaxDims + 1)}

\* **kwargs: a mapping from the keywords given to their values
MkKwargs(ho, co, ao) ==
    [key \in (IF ho = <<>> THEN {} ELSE {"h"})
             \cup (IF co = <<>> THEN {} ELSE {"coords"})
             \cup (IF ao = <<>> THEN {} ELSE {"acc"}) |->
        CASE key = "h" -> ho[1]
          [] key = "coords" -> co[1]
          [] key = "acc" -> ao[1]]

KwargsValues ==
    {MkKwargs(ho, co, ao) : ho \in Opt(HValues), co \in Opt(CoordsValues), ao \in Opt(Accs)}

\* kwargs.pop(key)
Pop(kwargs, key) == [x \in (DOMAIN kwargs) \ {key} |-> kwargs[x]]

-----------------------------------------------------------------------------
(* Inputs of the applications *)

\* the length of the i-th non-leading axis of the fields drawn: 2, 3, 2, ...
TrailDim(i) == 2 + ((i + 1) % 2)

FieldShape(lead, rank) ==
    IF rank = 0 THEN <<>>
    ELSE <<lead>> \o [i \in 1..(rank - 1) |-> TrailDim(i)]

Shapes == {FieldShape(lead, rank) : lead \in 1..MaxLead, rank \in 0..MaxRank}

\* f: a numpy array, a list of component arrays (shape = <<len>> \o the shape
\* of a component), or any other object
Fields ==
    {[type |-> "ndarray", shape |-> s] : s \in Shapes}
    \cup {[type |-> "list", shape |-> s] : s \in {t \in Shapes : Len(t) >= 2}}
    \cup {[type |-> "other", shape |-> <<>>]}

-----------------------------------------------------------------------------
(* Arrays and their symbolic contents *)

\* the part src of the caller's field, untouched: src = -1 is the whole field,
\* src = k >= 0 is f[k]
Raw(src) == <<[sgn |-> 1, ds |-> <<>>, src |-> src]>>

Zero == <<>>

Add(a, b) == a \o b

Neg(a) == [i \in 1..Len(a) |-> [a[i] EXCEPT !.sgn = 0 - @]]

Sub(a, b) == Add(a, Neg(b))

\* the caller's array as an operator reads it: as one whole (Gradient,
\* Laplacian) or by its leading index (Divergence, Curl)
WholeField(f) == [shape |-> f.shape, data |-> <<Raw(-1)>>]

StackField(f) ==
    [shape |-> f.shape,
     data  |-> IF f.shape = <<>> THEN <<Raw(-1)>>
               ELSE [i \in 1..f.shape[1] |-> Raw(i - 1)]]

\* f[k] of an array held by its leading index
GetItem(a, k) == [shape |-> Tail(a.shape), val |-> a.data[k + 1]]

\* the callable a FinDiff object is: the partial derivative of x along d's
\* axis, of the shape of x
ApplyDiff(d, x) ==
    [shape |-> x.shape,
     val   |-> [i \in 1..Len(x.val) |-> [x.val[i] EXCEPT !.ds = <<d>> \o @]]]

-----------------------------------------------------------------------------
(* The collaborators findiff.util.wrap_in_ndarray and findiff.diff.FinDiff *)

\* a scalar becomes a one-element array, a list becomes an array of its items
wrap_in_ndarray(value) ==
    IF value.isseq THEN value.seq ELSE <<value.scalar>>

\* FinDiff((axis[, spacing[, order]]), coords=..., acc=...): the differentiator
\* built, recorded by what it was given; order defaults to 1, accuracy to 2
FinDiff(args, kwargs) ==
    [axis   |-> args[1],
     spac   |-> IF Len(args) >= 2 THEN <<args[2]>> ELSE <<>>,
     deriv  |-> IF Len(args) >= 3 THEN args[3] ELSE 1,
     coords |-> IF "coords" \in DOMAIN kwargs THEN <<kwargs["coords"]>> ELSE <<>>,
     acc    |-> IF "acc" \in DOMAIN kwargs THEN kwargs["acc"] ELSE 2]

-----------------------------------------------------------------------------
(* VectorOperator *)

NewObject(cls) ==
    [cls |-> cls, h |-> <<>>, ndims |-> <<>>, components |-> <<>>, parts |-> <<>>]

get_dimension(coords) ==
    IF coords.isnd
    THEN IF Len(coords.shape) > 1 THEN coords.shape[1] ELSE 1
    ELSE coords.shape[1]

\* the branch  if "h" in kwargs  of VectorOperator.__init__
InitFromH(st) ==
    IF "h" \in DOMAIN st.kwargs
    THEN LET h  == wrap_in_ndarray(st.kwargs["h"])
             kw == Pop(st.kwargs, "h")
             cs == [k \in 1..Len(h) |-> FinDiff(<<k - 1, h[k]>>, kw)]
         IN  [self   |-> [st.self EXCEPT !.h = <<h>>, !.ndims = <<Len(h)>>,
                                         !.components = <<cs>>],
              kwargs |-> kw,
              made   |-> st.made \o cs]
    ELSE st

\* the branch  if "coords" in kwargs  of VectorOperator.__init__
InitFromCoords(st) ==
    IF "coords" \in DOMAIN st.kwargs
    THEN LET coords == st.kwargs["coords"]
             kw     == Pop(st.kwargs, "coords")
             n      == get_dimension(coords)
             cs     == [k \in 1..n |->
                           FinDiff(<<k - 1>>, [x \in (DOMAIN kw) \cup {"coords"} |->
                                       IF x = "coords" THEN coords ELSE kw[x]])]
         IN  [self   |-> [st.self EXCEPT !.ndims = <<n>>, !.components = <<cs>>],
              kwargs |-> kw,
              made   |-> st.made \o cs]
    ELSE st

\* VectorOperator.__init__(self, **kwargs): the object and the FinDiff calls made
VectorOperator_init(self, kwargs) ==
    LET st == InitFromCoords(InitFromH([self |-> self, kwargs |-> kwargs, made |-> <<>>]))
    IN  [exc |-> "none", self |-> st.self, made |-> st.made]

Gradient_init(kwargs) == VectorOperator_init(NewObject("Gradient"), kwargs)

Divergence_init(kwargs) == VectorOperator_init(NewObject("Divergence"), kwargs)

\* the guard with the dimensions above three let through
CurlGuard_below(ndims) == ndims < 3

\* if self.ndims != 3: raise ValueError
CurlGuard(ndims) == ndims /= 3

Curl_init(kwargs) ==
    LET r == VectorOperator_init(NewObject("Curl"), kwargs)
    IN  IF r.self.ndims = <<>> THEN [r EXCEPT !.exc = "AttributeError"]
        ELSE IF CurlGuard(r.self.ndims[1]) THEN [r EXCEPT !.exc = "ValueError"]
        ELSE r

\* the part built without its derivative order
Laplacian_part_first_order(h, k, acc) == FinDiff(<<k, h[k + 1]>>, [x \in {"acc"} |-> acc])

\* FinDiff((k, h[k], 2), acc=acc)
Laplacian_part(h, k, acc) == FinDiff(<<k, h[k + 1], 2>>, [x \in {"acc"} |-> acc])

\* Laplacian.__init__(self, h=[1.], acc=2)
Laplacian_init(ho, ao) ==
    LET h0   == IF ho = <<>> THEN [isseq |-> TRUE, seq |-> <<1>>, scalar |-> 0] ELSE ho[1]
        acc  == IF ao = <<>> THEN 2 ELSE ao[1]
        h    == wrap_in_ndarray(h0)
        ps   == [k \in 1..Len(h) |-> Laplacian_part(h, k - 1, acc)]
    IN  [exc  |-> "none",
         self |-> [NewObject("Laplacian") EXCEPT !.parts = <<ps>>],
         made |-> ps]

-----------------------------------------------------------------------------
(* Applications: each gives the exception raised or "none", the arrays as  *)
(* the application leaves them, the array updated in place, the value      *)
(* returned and the differentiator applications made, in order             *)

Raise(e, h, ref, cs) ==
    [exc |-> e, heap |-> h, accref |-> ref, ret |-> <<>>, calls |-> cs]

Return(h, ref, a, cs) ==
    [exc |-> "none", heap |-> h, accref |-> ref, ret |-> <<a>>, calls |-> cs]

\* np.array(result) of a list of equally shaped arrays
np_array(result) ==
    [shape |-> IF Len(result) = 0 THEN <<0>>
               ELSE <<Len(result)>> \o result[1].shape,
     data  |-> [k \in 1..Len(result) |-> result[k].val]]

\* np.zeros(shape): a new array, held as one whole (rows = 1) or by its
\* leading index (rows = shape[0])
np_zeros(h, shape, rows) ==
    [heap |-> [fld |-> h.fld, acc |-> [shape |-> shape, data |-> [i \in 1..rows |-> Zero]]],
     ref  |-> "acc"]

\* the field itself taken as the accumulator
np_zeros_like_alias(h) == [heap |-> h, ref |-> "fld"]

\* np.zeros_like(f): a new array of the shape of f
np_zeros_like(h) == np_zeros(h, h.fld.shape, 1)

\* a[i] += v, in place, on the array ref names
IAdd(h, ref, i, v) == [h EXCEPT ![ref].data[i] = Add(@, v)]

\* the first differentiator taken for every axis
Gradient_d_dxk_first(self, k) == self.components[1][1]

\* d_dxk = self.components[k]
Gradient_d_dxk(self, k) == self.components[1][k + 1]

\* Gradient.__call__(self, f)
Gradient_call(self, f) ==
    LET h0 == [fld |-> WholeField(f)]
    IN  IF f.type /= "ndarray" THEN Raise("TypeError", h0, <<>>, <<>>)
        ELSE IF self.ndims = <<>> THEN Raise("AttributeError", h0, <<>>, <<>>)
        ELSE IF Len(f.shape) /= self.ndims[1] THEN Raise("ValueError", h0, <<>>, <<>>)
        ELSE LET x      == [shape |-> f.shape, val |-> h0.fld.data[1]]
                 result == [k \in 1..self.ndims[1] |-> ApplyDiff(Gradient_d_dxk(self, k - 1), x)]
                 cs     == [k \in 1..self.ndims[1] |->
                               [d |-> Gradient_d_dxk(self, k - 1), src |-> -1]]
             IN  Return(h0, <<>>, np_array(result), cs)

\* the shape test of Divergence.__call__
Divergence_mismatch(shape, ndims) == Len(shape) /= ndims + 1 /\ shape[1] /= ndims

\* the first component taken for every axis
Divergence_operand_first(h, k) == GetItem(h.fld, 0)

\* the operand f[k] of the k-th term
Divergence_operand(h, k) == GetItem(h.fld, k)

\* the loop of Divergence.__call__ from axis k on
RECURSIVE Divergence_loop(_, _, _, _, _)
Divergence_loop(self, h, ref, k, cs) ==
    IF k = self.ndims[1] THEN Return(h, <<ref>>, h[ref], cs)
    ELSE IF k >= h.fld.shape[1] THEN Raise("IndexError", h, <<ref>>, cs)
    ELSE LET d == self.components[1][k + 1]
             t == ApplyDiff(d, Divergence_operand(h, k))
         IN  Divergence_loop(self, IAdd(h, ref, 1, t.val), ref, k + 1,
                             Append(cs, [d |-> d, src |-> k]))

\* Divergence.__call__(self, f)
Divergence_call(self, f) ==
    LET h0 == [fld |-> StackField(f)]
    IN  IF f.type /= "ndarray" /\ f.type /= "list" THEN Raise("TypeError", h0, <<>>, <<>>)
        ELSE IF f.type = "list" THEN Raise("AttributeError", h0, <<>>, <<>>)
        ELSE IF self.ndims = <<>> THEN Raise("AttributeError", h0, <<>>, <<>>)
        ELSE IF Len(f.shape) /= self.ndims[1] + 1 /\ f.shape = <<>>
             THEN Raise("IndexError", h0, <<>>, <<>>)
        ELSE IF Divergence_mismatch(f.shape, self.ndims[1])
             THEN Raise("ValueError", h0, <<>>, <<>>)
        ELSE LET a == np_zeros(h0, Tail(f.shape), 1)
             IN  Divergence_loop(self, a.heap, a.ref, 0, <<>>)

\* the shape test of Curl.__call__
Curl_mismatch(shape, ndims) == Len(shape) /= ndims + 1 /\ shape[1] /= ndims

\* result[i] += self.components[a](f[b]) - self.components[c](f[e])
Curl_line(self, st, i, a, b, c, e) ==
    LET lead == st.heap.fld.shape[1]
        ref  == st.accref[1]
        da   == self.components[1][a + 1]
        dc   == self.components[1][c + 1]
        cs1  == Append(st.calls, [d |-> da, src |-> b])
        cs2  == Append(cs1, [d |-> dc, src |-> e])
    IN  IF st.exc /= "none" THEN st
        ELSE IF i >= lead \/ b >= lead THEN [st EXCEPT !.exc = "IndexError"]
        ELSE IF e >= lead THEN [st EXCEPT !.exc = "IndexError", !.calls = cs1]
        ELSE [st EXCEPT
                 !.heap = IAdd(@, ref, i + 1,
                               Sub(ApplyDiff(da, GetItem(st.heap.fld, b)).val,
                                   ApplyDiff(dc, GetItem(st.heap.fld, e)).val)),
                 !.calls = cs2]

\* result[0] += self.components[1](f[2]) - self.components[2](f[1])
Curl_row0(self, st) == Curl_line(self, st, 0, 1, 2, 2, 1)

\* the second row with its two terms exchanged
Curl_row1_swapped(self, st) == Curl_line(self, st, 1, 0, 2, 2, 0)

\* result[1] += self.components[2](f[0]) - self.components[0](f[2])
Curl_row1(self, st) == Curl_line(self, st, 1, 2, 0, 0, 2)

\* result[2] += self.components[0](f[1]) - self.components[1](f[0])
Curl_row2(self, st) == Curl_line(self, st, 2, 0, 1, 1, 0)

\* Curl.__call__(self, f)
Curl_call(self, f) ==
    LET h0 == [fld |-> StackField(f)]
    IN  IF f.type /= "ndarray" /\ f.type /= "list" THEN Raise("TypeError", h0, <<>>, <<>>)
        ELSE IF f.type = "list" THEN Raise("AttributeError", h0, <<>>, <<>>)
        ELSE IF self.ndims = <<>> THEN Raise("AttributeError", h0, <<>>, <<>>)
        ELSE IF Len(f.shape) /= self.ndims[1] + 1 /\ f.shape = <<>>
             THEN Raise("IndexError", h0, <<>>, <<>>)
        ELSE IF Curl_mismatch(f.shape, self.ndims[1])
             THEN Raise("ValueError", h0, <<>>, <<>>)
        ELSE LET a  == np_zeros(h0, f.shape, f.shape[1])
                 s0 == Raise("none", a.heap, <<a.ref>>, <<>>)
                 s1 == Curl_row0(self, s0)
                 s2 == Curl_row1(self, s1)
                 s3 == Curl_row2(self, s2)
             IN  IF s3.exc = "none" THEN [s3 EXCEPT !.ret = <<s3.heap[a.ref]>>] ELSE s3

\* the loop of Laplacian.__call__ over self._parts from the k-th on
RECURSIVE Laplacian_loop(_, _, _, _, _)
Laplacian_loop(self, h, ref, k, cs) ==
    IF k > Len(self.parts[1]) THEN Return(h, <<ref>>, h[ref], cs)
    ELSE LET part == self.parts[1][k]
             t    == ApplyDiff(part, [shape |-> h.fld.shape, val |-> h.fld.data[1]])
         IN  Laplacian_loop(self, IAdd(h, ref, 1, t.val), ref, k + 1,
                            Append(cs, [d |-> part, src |-> -1]))

\* Laplacian.__call__(self, f)
Laplacian_call(self, f) ==
    LET a == np_zeros_like([fld |-> WholeField(f)])
    IN  Laplacian_loop(self, a.heap, a.ref, 1, <<>>)

-----------------------------------------------------------------------------
Init ==
    /\ given = <<>>
    /\ op = <<>>
    /\ made = <<>>
    /\ exc = "none"
    /\ arg = <<>>
    /\ heap = <<>>
    /\ accref = <<>>
    /\ ret = <<>>
    /\ calls = <<>>
    /\ last = "none"

Constructed(cls, kwargs, r) ==
    /\ given' = <<[cls |-> cls, kwargs |-> kwargs]>>
    /\ op' = IF r.exc = "none" THEN <<r.self>> ELSE <<>>
    /\ made' = r.made
    /\ exc' = r.exc
    /\ last' = "new"
    /\ UNCHANGED <<arg, heap, accref, ret, calls>>

NewGradient ==
    /\ last = "none"
    /\ \E kw \in KwargsValues : Constructed("Gradient", kw, Gradient_init(kw))

NewDivergence ==
    /\ last = "none"
    /\ \E kw \in KwargsValues : Constructed("Divergence", kw, Divergence_init(kw))

NewCurl ==
    /\ last = "none"
    /\ \E kw \in KwargsValues : Constructed("Curl", kw, Curl_init(kw))

NewLaplacian ==
    /\ last = "none"
    /\ \E ho \in Opt(HValues), ao \in Opt(Accs) :
          Constructed("Laplacian", MkKwargs(ho, <<>>, ao), Laplacian_init(ho, ao))

Applied(f, r) ==
    /\ arg' = <<f>>
    /\ heap' = r.heap
    /\ accref' = r.accref
    /\ ret' = r.ret
    /\ calls' = r.calls
    /\ exc' = r.exc
    /\ last' = "call"
    /\ UNCHANGED <<given, op, made>>

CallGradient ==
    /\ op /= <<>> /\ op[1].cls = "Gradient"
    /\ \E f \in Fields : Applied(f, Gradient_call(op[1], f))

CallDivergence ==
    /\ op /= <<>> /\ op[1].cls = "Divergence"
    /\ \E f \in Fields : Applied(f, Divergence_call(op[1], f))

CallCurl ==
    /\ op /= <<>> /\ op[1].cls = "Curl"
    /\ \E f \in Fields : Applied(f, Curl_call(op[1], f))

CallLaplacian ==
    /\ op /= <<>> /\ op[1].cls = "Laplacian"
    /\ \E f \in {g \in Fields : g.type = "ndarray"} : Applied(f, Laplacian_call(op[1], f))

Next ==
    \/ NewGradient
    \/ NewDivergence
    \/ NewCurl
    \/ NewLaplacian
    \/ CallGradient
    \/ CallDivergence
    \/ CallCurl
    \/ CallLaplacian

Spec == Init /\ [][Next]_vars

-----------------------------------------------------------------------------
(* Vocabulary of the properties *)

VectorClasses == {"Gradient", "Divergence", "Curl"}

Term(sgn, ds, src) == [sgn |-> sgn, ds |-> ds, src |-> src]

HasH      == "h" \in DOMAIN given[1].kwargs
HasCoords == "coords" \in DOMAIN given[1].kwargs

JustBuilt(classes) == last = "new" /\ given[1].cls \in classes

JustCalled(cls) == last = "call" /\ op[1].cls = cls

F == arg[1]

IsArray == F.type = "ndarray"

\* the dimension count the constructor infers from what it was given
Inferred ==
    IF HasCoords THEN get_dimension(given[1].kwargs["coords"])
    ELSE Len(wrap_in_ndarray(given[1].kwargs["h"]))

\* a vector field that fits an operator of n dimensions
FitsVector(n) == Len(F.shape) = n + 1 /\ F.shape[1] = n

NothingDone == calls = <<>> /\ ret = <<>> /\ accref = <<>>

-----------------------------------------------------------------------------
(* C1: constructing a Gradient, Divergence or Curl with both h and coords, *)
(* or with neither, raises an error and produces no operator object.       *)
C1_ConfigurationExclusive ==
    (JustBuilt(VectorClasses) /\ (HasH <=> HasCoords)) => (exc /= "none" /\ op = <<>>)

(* C2: constructing a Curl from h or coords raises ValueError and produces *)
(* no object when the inferred ndims is not 3, and succeeds with ndims = 3 *)
(* when it is 3.                                                           *)
C2_CurlOnlyIn3D ==
    (JustBuilt({"Curl"}) /\ (HasH \/ HasCoords)) =>
        /\ Inferred /= 3 => (exc = "ValueError" /\ op = <<>>)
        /\ Inferred = 3 => (exc = "none" /\ op /= <<>> /\ op[1].ndims = <<3>>
                              /\ Len(op[1].components[1]) = 3)

C2_Witness_Rejected ==
    JustBuilt({"Curl"}) /\ HasH /\ ~HasCoords /\ Inferred = 2 /\ exc = "ValueError"

C2_Witness ==
    JustBuilt({"Curl"}) /\ HasCoords /\ Inferred = 3 /\ exc = "none" /\ op /= <<>>

(* C3: Divergence and Curl, applied to an array whose rank is not ndims+1  *)
(* or whose leading axis is not ndims long, raise an error before any      *)
(* differentiator is applied and return nothing.                           *)
C3_RejectsMismatch ==
    ((JustCalled("Divergence") \/ JustCalled("Curl")) /\ IsArray /\ op[1].ndims /= <<>>
        /\ ~FitsVector(op[1].ndims[1]))
    => (exc /= "none" /\ calls = <<>> /\ ret = <<>>)

(* C4: Divergence and Curl, applied to a list of ndims component arrays,   *)
(* succeed and return what they return for the same field as one array.    *)
C4_AcceptsList ==
    ((JustCalled("Divergence") \/ JustCalled("Curl")) /\ F.type = "list"
        /\ op[1].ndims /= <<>> /\ FitsVector(op[1].ndims[1]))
    => /\ exc = "none"
       /\ ret = IF op[1].cls = "Divergence"
                THEN Divergence_call(op[1], [F EXCEPT !.type = "ndarray"]).ret
                ELSE Curl_call(op[1], [F EXCEPT !.type = "ndarray"]).ret

(* C5: Gradient applied to f raises TypeError when f is no array and       *)
(* ValueError when rank(f) /= ndims, applying no differentiator; otherwise *)
(* it returns the stack whose k-th entry is components[k](f), of leading   *)
(* length ndims and rank ndims + 1.                                        *)
C5_Gradient ==
    JustCalled("Gradient") =>
        /\ ~IsArray => (exc = "TypeError" /\ NothingDone)
        /\ (IsArray /\ op[1].ndims /= <<>>) =>
             LET n == op[1].ndims[1]
             IN  IF Len(F.shape) /= n
                 THEN exc = "ValueError" /\ NothingDone
                 ELSE /\ exc = "none"
                      /\ ret /= <<>>
                      /\ ret[1].shape = <<n>> \o F.shape
                      /\ Len(ret[1].shape) = n + 1
                      /\ ret[1].shape[1] = n
                      /\ Len(ret[1].data) = n
                      /\ \A k \in 1..n :
                           /\ op[1].components[1][k].axis = k - 1
                           /\ ret[1].data[k] = <<Term(1, <<op[1].components[1][k]>>, -1)>>
                      /\ calls = [k \in 1..n |-> [d |-> op[1].components[1][k], src |-> -1]]

C5_Witness ==
    /\ JustCalled("Gradient") /\ IsArray /\ exc = "none"
    /\ op[1].ndims = <<3>> /\ Len(ret[1].data) = 3

C5_Witness_Rejected ==
    /\ JustCalled("Gradient") /\ IsArray /\ exc = "ValueError" /\ op[1].ndims = <<2>>

(* C6: Curl applied to a field of rank 4 with three components returns a   *)
(* field of the same shape with result[0] = D1(f[2]) - D2(f[1]),           *)
(* result[1] = D2(f[0]) - D0(f[2]), result[2] = D0(f[1]) - D1(f[0]), Dk    *)
(* the differentiator of axis k, and applies no other differentiator.      *)
C6_Curl ==
    (JustCalled("Curl") /\ IsArray /\ FitsVector(3)) =>
        LET D(k) == op[1].components[1][k + 1]
            Diff(a, b, c, e) == <<Term(1, <<D(a)>>, b), Term(-1, <<D(c)>>, e)>>
        IN  /\ exc = "none"
            /\ \A k \in 0..2 : D(k).axis = k
            /\ ret /= <<>>
            /\ ret[1].shape = F.shape
            /\ ret[1].data = <<Diff(1, 2, 2, 1), Diff(2, 0, 0, 2), Diff(0, 1, 1, 0)>>
            /\ calls = <<[d |-> D(1), src |-> 2], [d |-> D(2), src |-> 1],
                         [d |-> D(2), src |-> 0], [d |-> D(0), src |-> 2],
                         [d |-> D(0), src |-> 1], [d |-> D(1), src |-> 0]>>

C6_Witness ==
    /\ JustCalled("Curl") /\ IsArray /\ FitsVector(3) /\ exc = "none"
    /\ Len(ret[1].data) = 3 /\ Len(calls) = 6

(* C7: a Laplacian built from h (default [1.0]) and acc (default 2) holds  *)
(* Len(h) differentiators, the k-th on axis k with spacing h[k], order 2   *)
(* and accuracy acc; applied to f it returns, in the shape of f, the sum   *)
(* of part(f) over the parts in axis order, starting from zero.            *)
C7_Laplacian ==
    (given /= <<>> /\ given[1].cls = "Laplacian") =>
        LET h   == IF HasH
                   THEN (IF given[1].kwargs["h"].isseq THEN given[1].kwargs["h"].seq
                         ELSE <<given[1].kwargs["h"].scalar>>)
                   ELSE <<1>>
            acc == IF "acc" \in DOMAIN given[1].kwargs THEN given[1].kwargs["acc"] ELSE 2
            ps  == op[1].parts[1]
        IN  /\ op /= <<>>
            /\ Len(ps) = Len(h)
            /\ \A k \in 1..Len(h) :
                 ps[k] = [axis |-> k - 1, spac |-> <<h[k]>>, deriv |-> 2,
                          coords |-> <<>>, acc |-> acc]
            /\ last = "call" =>
                 /\ exc = "none"
                 /\ ret /= <<>>
                 /\ ret[1].shape = F.shape
                 /\ ret[1].data = <<[k \in 1..Len(ps) |-> Term(1, <<ps[k]>>, -1)]>>
                 /\ calls = [k \in 1..Len(ps) |-> [d |-> ps[k], src |-> -1]]

C7_Witness ==
    /\ JustCalled("Laplacian") /\ HasH /\ Len(op[1].parts[1]) = 3
    /\ op[1].parts[1][2].spac /= op[1].parts[1][1].spac
    /\ Len(F.shape) = 3 /\ Len(ret[1].data[1]) = 3

C7_Witness_Defaults ==
    /\ JustCalled("Laplacian") /\ given[1].kwargs = <<>> /\ Len(op[1].parts[1]) = 1

(* C8: an application, whether it returns or raises, leaves the operator   *)
(* object as it was and the caller's field as it was passed in; the array  *)
(* updated in place is a new array, not the field.                         *)
C8_ApplyFrame ==
    [][last' = "call" =>
         /\ op' = op
         /\ heap'.fld = IF op[1].cls \in {"Gradient", "Laplacian"}
                        THEN WholeField(arg'[1]) ELSE StackField(arg'[1])
         /\ accref' /= <<>> => (accref'[1] /= "fld" /\ accref'[1] \in DOMAIN heap')]_vars

C8_Witness ==
    /\ JustCalled("Laplacian") /\ accref = <<"acc">> /\ Len(heap.acc.data[1]) >= 2

C8_Witness_Raised ==
    /\ JustCalled("Divergence") /\ exc = "IndexError" /\ Len(calls) >= 1
    /\ accref = <<"acc">>

(* C9: Divergence applied to a field of rank ndims+1 with ndims components *)
(* applies components[k] to f[k] for k = 0, ..., ndims-1 in that order,    *)
(* each once, and returns the sum of the results in that order, starting   *)
(* from zero, in the shape of one component of f.                          *)
C9_Divergence ==
    (JustCalled("Divergence") /\ IsArray /\ op[1].ndims /= <<>>
        /\ FitsVector(op[1].ndims[1])) =>
        LET n == op[1].ndims[1]
            D(k) == op[1].components[1][k + 1]
        IN  /\ exc = "none"
            /\ \A k \in 0..(n - 1) : D(k).axis = k
            /\ calls = [k \in 1..n |-> [d |-> D(k - 1), src |-> k - 1]]
            /\ ret /= <<>>
            /\ ret[1].data = <<[k \in 1..n |-> Term(1, <<D(k - 1)>>, k - 1)]>>
            /\ ret[1].shape = Tail(F.shape)
            /\ Len(ret[1].shape) = Len(F.shape) - 1

C9_Witness ==
    /\ JustCalled("Divergence") /\ IsArray /\ op[1].ndims = <<3>> /\ FitsVector(3)
    /\ exc = "none" /\ Len(calls) = 3

(* C10: a construction of a Gradient, Divergence or Curl that raises       *)
(* nothing yields ndims and ndims differentiators, the k-th on axis k with *)
(* order 1; from h, ndims = len(h) and the k-th has spacing h[k]; from     *)
(* coords, ndims is the row count of a multi-row array, 1 for a flat       *)
(* array, the length of a list, and each differentiator has the coords;    *)
(* each FinDiff construction is given exactly one of spacing and coords.   *)
C10_Construction ==
    (JustBuilt(VectorClasses) /\ exc = "none") =>
        /\ op /= <<>>
        /\ op[1].ndims /= <<>>
        /\ op[1].components /= <<>>
        /\ Len(op[1].components[1]) = op[1].ndims[1]
        /\ \A k \in 1..op[1].ndims[1] :
             LET d == op[1].components[1][k]
             IN  /\ d.axis = k - 1
                 /\ d.deriv = 1
                 /\ (HasH /\ ~HasCoords) =>
                      /\ given[1].kwargs["h"].isseq =>
                           /\ op[1].ndims[1] = Len(given[1].kwargs["h"].seq)
                           /\ d.spac = <<given[1].kwargs["h"].seq[k]>>
                      /\ d.coords = <<>>
                 /\ (HasCoords /\ ~HasH) =>
                      /\ d.coords = <<given[1].kwargs["coords"]>>
                      /\ d.spac = <<>>
        /\ (HasCoords /\ ~HasH) =>
             LET c == given[1].kwargs["coords"]
             IN  op[1].ndims[1] = IF c.isnd
                                  THEN (IF Len(c.shape) >= 2 THEN c.shape[1] ELSE 1)
                                  ELSE c.shape[1]
        /\ \A i \in 1..Len(made) : (made[i].spac = <<>>) /= (made[i].coords = <<>>)
====
